---------------------------- MODULE Spec2Model ----------------------------
(***************************************************************************)
(* The Students page of CampusFIX (frontend_v3/src/pages/Students.jsx):    *)
(* one component instance with its state cells, its toast timer, the       *)
(* GET /users/all and POST /users/:id/manage-hostel calls in flight, and   *)
(* the search filter.                                                      *)
(*                                                                         *)
(* A state setter call is modelled as the assignment it requests, and an   *)
(* updater function passed to a setter is applied to the latest value of   *)
(* the cell at the call.  Each action is one run of a handler up to its    *)
(* next await.  Strings are sequences of one-character strings.            *)
(***************************************************************************)
EXTENDS Integers, Sequences, FiniteSets, TLC

VARIABLES
    mounted,     \* the component instance has not been torn down
    isMounted,   \* the flag captured by the initial-load effect (line 53)
    students,    \* useState([])   (line 6)
    loading,     \* useState(true) (line 7)
    searchTerm,  \* useState("")   (line 8)
    toast,       \* useState(null) (line 9)
    timers,      \* ids of the pending setTimeout callbacks
    nextTimer,   \* the last id setTimeout returned
    gets,        \* GET /users/all calls in flight
    nextGet,     \* number of GET calls started so far
    posts,       \* POST manage-hostel calls in flight
    nextPost,    \* number of POST calls started so far
    cachedFrom,  \* history: seq of the GET whose response is in students
    ev           \* history: the handler step that produced this state

vars == << mounted, isMounted, students, loading, searchTerm, toast, timers,
           nextTimer, gets, nextGet, posts, nextPost, cachedFrom, ev >>

---------------------------------------------------------------------------
(* Bounds of the model *)

\* GET calls one component instance starts, the initial load included
MaxFetches == 3
\* approve/reject clicks of one component instance
MaxPosts == 2
\* length of a fetched list, for the filter's specification
MaxStudents == 2
\* length of a typed search term, for the filter's specification
MaxTermLen == 3

---------------------------------------------------------------------------
(* Strings *)

Chars == {"a", "A", "b", "B", " "}

\* String.prototype.toLowerCase, one character
LowerChar(c) == CASE c = "A" -> "a" [] c = "B" -> "b" [] OTHER -> c

toLowerCase(s) == [i \in 1..Len(s) |-> LowerChar(s[i])]

\* String.prototype.trim: drop the leading and the trailing white space
trim(s) ==
    LET nonBlank == {i \in 1..Len(s) : s[i] # " "}
    IN  IF nonBlank = {} THEN << >>
        ELSE LET lo == CHOOSE i \in nonBlank : \A j \in nonBlank : i <= j
                 hi == CHOOSE i \in nonBlank : \A j \in nonBlank : i >= j
             IN  SubSeq(s, lo, hi)

\* String.prototype.includes
includes(s, t) ==
    \E i \in 0..(Len(s) - Len(t)) : SubSeq(s, i + 1, i + Len(t)) = t

\* (s.field || ""): a missing or empty field reads as the empty string
OrEmpty(s, f) == IF f \in DOMAIN s THEN s[f] ELSE << >>

\* the truthiness of s.field
Truthy(s, f) == f \in DOMAIN s /\ Len(s[f]) > 0

StringsUpTo(n) == UNION {[1..k -> Chars] : k \in 0..n}

---------------------------------------------------------------------------
(* Student records as the backend returns them *)

Student1 ==
    [id |-> 1, full_name |-> <<"A", "b">>, enrollment_no |-> <<"B", " ", "a">>,
     requested_hostel |-> <<"A">>]
\* no enrollment number, no pending request
Student2 == [id |-> 2, full_name |-> <<"b", "B">>]
\* no name
Student3 ==
    [id |-> 3, enrollment_no |-> <<"a", "A">>, requested_hostel |-> <<"B">>]

StudentPool == {Student1, Student2, Student3}

StudentIds == {s.id : s \in StudentPool}

\* lists of distinct students of length at most n
StudentLists(n) ==
    {l \in UNION {[1..k -> StudentPool] : k \in 0..n} :
        \A i, j \in 1..Len(l) : i # j => l[i].id # l[j].id}

\* the responses GET /users/all gives in the component's specification
Responses == { << >>, <<Student1, Student2>>, <<Student3>> }

\* the search terms typed in the component's specification
TypedTerms == { << >>, <<" ", "A">>, <<"b", "b">> }

Actions == {"approve", "reject"}

---------------------------------------------------------------------------
(* Toast *)

\* toast === null
NoToast == [type |-> "none", message |-> "", _id |-> 0]

MsgFetchFailed == "Failed to connect to database"
MsgActionFailed == "Action failed"
MsgRequestDone(action) ==
    IF action = "approve" THEN "Request approveed successfully"
    ELSE "Request rejected successfully"


\* ClearToastTimer without the clearTimeout call
ClearToastTimer_Kept == timers

\* clearTimeout(prev._id) when a toast is active (lines 20 and 31)
ClearToastTimer == IF toast._id # 0 THEN timers \ {toast._id} ELSE timers

\* showToast without the clearTimeout of the previous toast's timer
showToast_NoClear(type, message) ==
    LET id == nextTimer + 1
    IN  /\ timers' = timers \cup {id}
        /\ nextTimer' = id
        /\ toast' = [type |-> type, message |-> message, _id |-> id]

\* showToast (lines 17-25)
showToast(type, message) ==
    LET id == nextTimer + 1
    IN  /\ timers' = ClearToastTimer \cup {id}
        /\ nextTimer' = id
        /\ toast' = [type |-> type, message |-> message, _id |-> id]

\* the callback setTimeout runs after 3000 ms: setToast(null) (line 22)
TimerFire(id) ==
    /\ id \in timers
    /\ timers' = timers \ {id}
    /\ toast' = NoToast
    /\ ev' = [name |-> "timer", seq |-> id, prev |-> toast._id]
    /\ UNCHANGED << mounted, isMounted, students, loading, searchTerm, nextTimer,
                    gets, nextGet, posts, nextPost, cachedFrom >>

---------------------------------------------------------------------------
(* Filter *)

\* filteredStudents without the trim of the term
filteredStudents_NoTrim ==
    LET term == toLowerCase(searchTerm)
    IN  IF Len(term) = 0 THEN students
        ELSE SelectSeq(students,
                 LAMBDA s : \/ includes(toLowerCase(OrEmpty(s, "full_name")), term)
                            \/ includes(toLowerCase(OrEmpty(s, "enrollment_no")), term))

\* filteredStudents (lines 75-83)
filteredStudents ==
    LET term == trim(toLowerCase(searchTerm))
    IN  IF Len(term) = 0 THEN students
        ELSE SelectSeq(students,
                 LAMBDA s : \/ includes(toLowerCase(OrEmpty(s, "full_name")), term)
                            \/ includes(toLowerCase(OrEmpty(s, "enrollment_no")), term))

\* the search box's onChange (line 159)
SetSearchTerm(t) ==
    /\ mounted
    /\ searchTerm' = t
    /\ ev' = [name |-> "search", seq |-> 0, prev |-> toast._id]
    /\ UNCHANGED << mounted, isMounted, students, loading, toast, timers, nextTimer,
                    gets, nextGet, posts, nextPost, cachedFrom >>

---------------------------------------------------------------------------
(* DataLoader *)

\* loadStudents up to its await (lines 38-41): setLoading(true), api.get
loadStudents ==
    /\ loading' = TRUE
    /\ nextGet' = nextGet + 1
    /\ gets' = gets \cup {[seq |-> nextGet + 1, kind |-> "load", live |-> mounted]}

\* loadStudents after its await, the call fulfilled (lines 42, 46-48)
loadStudentsResolved(g, data) ==
    /\ students' = data
    /\ cachedFrom' = g.seq
    /\ loading' = FALSE
    /\ UNCHANGED << toast, timers, nextTimer >>

\* loadStudentsRejected that empties the list on a failure
loadStudentsRejected_ClearsList(g) ==
    /\ showToast("error", MsgFetchFailed)
    /\ loading' = FALSE
    /\ students' = << >>
    /\ UNCHANGED cachedFrom

\* loadStudentsRejected with setLoading(false) on the success path only
loadStudentsRejected_NoFinally(g) ==
    /\ showToast("error", MsgFetchFailed)
    /\ UNCHANGED << loading, students, cachedFrom >>

\* loadStudents after its await, the call rejected (lines 43-48)
loadStudentsRejected(g) ==
    /\ showToast("error", MsgFetchFailed)
    /\ loading' = FALSE
    /\ UNCHANGED << students, cachedFrom >>

\* run of the initial load after its await, the call fulfilled (lines 59, 65-67)
runResolved(g, data) ==
    /\ IF isMounted
       THEN students' = data /\ cachedFrom' = g.seq /\ loading' = FALSE
       ELSE UNCHANGED << students, cachedFrom, loading >>
    /\ UNCHANGED << toast, timers, nextTimer >>

\* run of the initial load after its await, the call rejected (lines 60-67)
runRejected(g) ==
    /\ IF isMounted
       THEN showToast("error", MsgFetchFailed) /\ loading' = FALSE
       ELSE UNCHANGED << toast, timers, nextTimer, loading >>
    /\ UNCHANGED << students, cachedFrom >>

\* the refresh button (lines 164-171): shown enabled only while not loading
RefreshClick ==
    /\ mounted
    /\ ~loading
    /\ nextGet + Cardinality(posts) < MaxFetches
    /\ loadStudents
    /\ ev' = [name |-> "refresh", seq |-> nextGet + 1, prev |-> toast._id]
    /\ UNCHANGED << mounted, isMounted, students, searchTerm, toast, timers,
                    nextTimer, posts, nextPost, cachedFrom >>

InitialLoadResolved(g, data) ==
    /\ g \in gets /\ g.kind = "initial"
    /\ gets' = gets \ {g}
    /\ runResolved(g, data)
    /\ ev' = [name |-> "getOk", seq |-> g.seq, prev |-> toast._id]
    /\ UNCHANGED << mounted, isMounted, searchTerm, nextGet, posts, nextPost >>

InitialLoadRejected(g) ==
    /\ g \in gets /\ g.kind = "initial"
    /\ gets' = gets \ {g}
    /\ runRejected(g)
    /\ ev' = [name |-> "getFail", seq |-> g.seq, prev |-> toast._id]
    /\ UNCHANGED << mounted, isMounted, searchTerm, nextGet, posts, nextPost >>

RefreshResolved(g, data) ==
    /\ g \in gets /\ g.kind = "load"
    /\ gets' = gets \ {g}
    /\ loadStudentsResolved(g, data)
    /\ ev' = [name |-> "getOk", seq |-> g.seq, prev |-> toast._id]
    /\ UNCHANGED << mounted, isMounted, searchTerm, nextGet, posts, nextPost >>

RefreshRejected(g) ==
    /\ g \in gets /\ g.kind = "load"
    /\ gets' = gets \ {g}
    /\ loadStudentsRejected(g)
    /\ ev' = [name |-> "getFail", seq |-> g.seq, prev |-> toast._id]
    /\ UNCHANGED << mounted, isMounted, searchTerm, nextGet, posts, nextPost >>

---------------------------------------------------------------------------
(* Action submission *)

\* handleRequest up to its await (lines 85-87): api.post
handleRequest(id, action) ==
    /\ nextPost' = nextPost + 1
    /\ posts' = posts \cup {[seq |-> nextPost + 1, id |-> id, action |-> action]}
    /\ UNCHANGED << students, loading, toast, timers, nextTimer, gets, nextGet,
                    cachedFrom >>

\* handleRequest after its await, the call fulfilled (lines 88-89)
handleRequestResolved(p) ==
    /\ showToast("success", MsgRequestDone(p.action))
    /\ loadStudents
    /\ UNCHANGED << students, cachedFrom >>

\* handleRequestRejected that refreshes on a failure too
handleRequestRejected_Refreshes(p) ==
    /\ showToast("error", MsgActionFailed)
    /\ loadStudents
    /\ UNCHANGED << students, cachedFrom >>

\* handleRequest after its await, the call rejected (lines 90-92)
handleRequestRejected(p) ==
    /\ showToast("error", MsgActionFailed)
    /\ UNCHANGED << students, loading, gets, nextGet, cachedFrom >>

\* the approve and reject buttons (lines 223-228, 254-262): rendered, while not
\* loading, for the displayed students that have a pending request
RequestClick(id, action) ==
    /\ mounted
    /\ ~loading
    /\ \E i \in 1..Len(filteredStudents) :
          filteredStudents[i].id = id /\ Truthy(filteredStudents[i], "requested_hostel")
    /\ nextPost < MaxPosts
    /\ nextGet + Cardinality(posts) < MaxFetches
    /\ handleRequest(id, action)
    /\ ev' = [name |-> "click", seq |-> nextPost + 1, prev |-> toast._id]
    /\ UNCHANGED << mounted, isMounted, searchTerm >>

RequestResolved(p) ==
    /\ p \in posts
    /\ posts' = posts \ {p}
    /\ handleRequestResolved(p)
    /\ ev' = [name |-> "postOk", seq |-> p.seq, prev |-> toast._id]
    /\ UNCHANGED << mounted, isMounted, searchTerm, nextPost >>

RequestRejected(p) ==
    /\ p \in posts
    /\ posts' = posts \ {p}
    /\ handleRequestRejected(p)
    /\ ev' = [name |-> "postFail", seq |-> p.seq, prev |-> toast._id]
    /\ UNCHANGED << mounted, isMounted, searchTerm, nextPost >>

---------------------------------------------------------------------------
(* Teardown *)

\* the effects' cleanups on unmount (lines 29-34 and 71)
Unmount ==
    /\ mounted
    /\ mounted' = FALSE
    /\ isMounted' = FALSE
    /\ timers' = ClearToastTimer
    /\ toast' = NoToast
    /\ ev' = [name |-> "unmount", seq |-> 0, prev |-> toast._id]
    /\ UNCHANGED << students, loading, searchTerm, nextTimer, gets, nextGet, posts,
                    nextPost, cachedFrom >>

---------------------------------------------------------------------------
(* The component *)

\* the state after the first render and its effects (lines 6-9, 52-72)
Init ==
    /\ mounted = TRUE
    /\ isMounted = TRUE
    /\ students = << >>
    /\ loading = TRUE
    /\ searchTerm = << >>
    /\ toast = NoToast
    /\ timers = {}
    /\ nextTimer = 0
    /\ gets = {[seq |-> 1, kind |-> "initial", live |-> TRUE]}
    /\ nextGet = 1
    /\ posts = {}
    /\ nextPost = 0
    /\ cachedFrom = 0
    /\ ev = [name |-> "mount", seq |-> 1, prev |-> 0]

GetComplete ==
    \/ \E g \in gets : \E data \in Responses : InitialLoadResolved(g, data)
    \/ \E g \in gets : InitialLoadRejected(g)
    \/ \E g \in gets : \E data \in Responses : RefreshResolved(g, data)
    \/ \E g \in gets : RefreshRejected(g)

Next ==
    \/ GetComplete
    \/ RefreshClick
    \/ \E id \in StudentIds : \E action \in Actions : RequestClick(id, action)
    \/ \E p \in posts : RequestResolved(p)
    \/ \E p \in posts : RequestRejected(p)
    \/ \E id \in timers : TimerFire(id)
    \/ \E t \in TypedTerms : SetSearchTerm(t)
    \/ Unmount

Spec == Init /\ [][Next]_vars

\* every network call in flight is eventually answered
FairSpec == Spec /\ WF_vars(GetComplete)

---------------------------------------------------------------------------
(* The filter on its own: any fetched list, any typed term *)

\* the component once the initial load has delivered a list
InitFilter ==
    /\ mounted = TRUE
    /\ isMounted = TRUE
    /\ students \in StudentLists(MaxStudents)
    /\ loading = FALSE
    /\ searchTerm = << >>
    /\ toast = NoToast
    /\ timers = {}
    /\ nextTimer = 0
    /\ gets = {}
    /\ nextGet = 1
    /\ posts = {}
    /\ nextPost = 0
    /\ cachedFrom = 1
    /\ ev = [name |-> "getOk", seq |-> 1, prev |-> 0]

NextFilter == \E t \in StringsUpTo(MaxTermLen) : SetSearchTerm(t)

SpecFilter == InitFilter /\ [][NextFilter]_vars

---------------------------------------------------------------------------
(* Properties *)

ShowEvents == {"getFail", "postOk", "postFail"}

\* the GET calls a step completes
Completed == gets \ gets'

\* C1: a GET started before teardown that completes after teardown changes
\* neither the cached list, nor the loading flag, nor the notification.
StaleResponseDropped ==
    [][\A g \in Completed :
          (g.live /\ ~mounted) =>
              (students' = students /\ loading' = loading /\ toast' = toast)]_vars

\* C2 as stated: every rejected fetch leaves the cached list as it was and
\* leaves an error notification visible.
FailedFetchShowsError ==
    [][ev'.name = "getFail" =>
          (students' = students /\ toast'.type = "error")]_vars

\* C2 as amended: every rejected fetch leaves the cached list as it was; a
\* rejected refresh, and a rejected initial load whose component is still
\* mounted, shows a new error notification with its timer pending; a rejected
\* initial load whose component was torn down leaves the notification alone.
FailedFetchKeepsList ==
    [][ev'.name = "getFail" =>
          /\ students' = students
          /\ \A g \in Completed :
                IF g.kind = "load" \/ isMounted
                THEN /\ toast'.type = "error"
                     /\ toast'.message = MsgFetchFailed
                     /\ toast'._id # toast._id
                     /\ toast'._id \in timers'
                ELSE toast' = toast]_vars

FailedFetchWitness ==
    /\ ev.name = "getFail"
    /\ ev.seq > 1
    /\ Len(students) > 0
    /\ toast.type = "error"
    /\ toast._id \in timers

\* C3: at most one notification is visible and the pending dismissal timers
\* are exactly one while a notification is visible and none otherwise; a show
\* leaves the new notification visible with its own timer as the only one.
OneToastOneTimer ==
    /\ [](Cardinality(timers) = (IF toast = NoToast THEN 0 ELSE 1))
    /\ [][(toast' # toast /\ toast' # NoToast) =>
             /\ ev'.name \in ShowEvents
             /\ toast'._id \notin timers
             /\ timers' = {toast'._id}]_vars

\* a show replaced a notification that was still visible
ShowTwiceWitness ==
    /\ ev.name \in ShowEvents
    /\ ev.prev # 0
    /\ toast # NoToast
    /\ toast._id # ev.prev
    /\ timers = {toast._id}

\* C4: after teardown no dismissal timer is pending and no timer callback
\* fires.
NoTimerAfterTeardown == ~mounted => (timers = {} /\ ev.name # "timer")

\* C5: a POST that succeeds shows a success notification and starts exactly
\* one refresh at its completion; a POST that fails shows an error
\* notification and starts none; the click starts none; the cached list is
\* changed by none of the three.
RequestThenRefresh ==
    [][/\ ev'.name = "click" =>
             /\ Cardinality(posts' \ posts) = 1
             /\ gets' = gets /\ nextGet' = nextGet /\ loading' = loading
             /\ students' = students /\ toast' = toast
       /\ ev'.name = "postOk" =>
             /\ toast'.type = "success" /\ toast'._id \in timers'
             /\ gets \subseteq gets' /\ Cardinality(gets' \ gets) = 1
             /\ nextGet' = nextGet + 1 /\ loading'
             /\ students' = students
       /\ ev'.name = "postFail" =>
             /\ toast'.type = "error" /\ toast'.message = MsgActionFailed
             /\ toast'._id \in timers'
             /\ gets' = gets /\ nextGet' = nextGet /\ loading' = loading
             /\ students' = students]_vars

RequestWitness ==
    /\ ev.name = "postOk"
    /\ toast.type = "success"
    /\ Len(students) > 0
    /\ \E g \in gets : g.seq = nextGet /\ g.kind = "load"

\* C6: a refresh sets the loading flag when it starts; once its call is
\* answered the flag is false; and a mounted component with no fetch in
\* flight is not loading.
LoadingClears ==
    /\ [][ev'.name \in {"refresh", "postOk"} => loading']_vars
    /\ ((\E g \in gets : g.kind = "load") ~> ~loading)
    /\ [](mounted /\ gets = {} => ~loading)

LoadingClearsWitness ==
    /\ ev.name \in {"getOk", "getFail"}
    /\ ev.seq > 1
    /\ gets = {}
    /\ ~loading

\* the two characters are the same letter, whatever their case
SameLetter(c, d) == c = d \/ {c, d} = {"a", "A"} \/ {c, d} = {"b", "B"}

Blank(t) == \A i \in 1..Len(t) : t[i] = " "

\* the term without its white space at either end occurs in the field,
\* whatever the case of the letters
Occurs(t, field) ==
    \E lo, hi \in 1..Len(t) :
        /\ t[lo] # " " /\ t[hi] # " "
        /\ \A i \in 1..Len(t) : (i < lo \/ i > hi) => t[i] = " "
        /\ \E off \in 0..(Len(field) - (hi - lo + 1)) :
              \A k \in 0..(hi - lo) : SameLetter(field[off + 1 + k], t[lo + k])

Matches(s, t) ==
    \/ "full_name" \in DOMAIN s /\ Occurs(t, s.full_name)
    \/ "enrollment_no" \in DOMAIN s /\ Occurs(t, s.enrollment_no)

IsSubList(f, l) ==
    \E idx \in [1..Len(f) -> 1..Len(l)] :
        /\ \A i, j \in 1..Len(f) : i < j => idx[i] < idx[j]
        /\ \A i \in 1..Len(f) : f[i] = l[idx[i]]

\* C7: the displayed list is a sub-list of the cached list; with a blank
\* term it is the whole cached list; otherwise its elements are exactly the
\* cached students whose name or enrollment number contains the term.
FilterContract ==
    /\ IsSubList(filteredStudents, students)
    /\ Blank(searchTerm) => filteredStudents = students
    /\ ~Blank(searchTerm) =>
          /\ \A i \in 1..Len(filteredStudents) :
                Matches(filteredStudents[i], searchTerm)
          /\ \A i \in 1..Len(students) :
                Matches(students[i], searchTerm) =>
                    \E j \in 1..Len(filteredStudents) :
                        filteredStudents[j] = students[i]

\* a term with a space to trim and a capital to fold keeps a student that has
\* no name and drops another
FilterWitness ==
    /\ ~Blank(searchTerm)
    /\ searchTerm # trim(searchTerm)
    /\ searchTerm # toLowerCase(searchTerm)
    /\ Len(filteredStudents) < Len(students)
    /\ \E i \in 1..Len(filteredStudents) :
          "full_name" \notin DOMAIN filteredStudents[i]

\* C8: a visible notification goes only when its own timer fires, when a
\* later show replaces it, or at teardown; the only timer that ever fires is
\* the visible notification's own.
NoEarlyDismissal ==
    /\ [][(toast # NoToast /\ toast' # toast) =>
             \/ ev'.name = "timer" /\ ev'.seq = toast._id /\ toast' = NoToast
             \/ ev'.name = "unmount" /\ toast' = NoToast
             \/ ev'.name \in ShowEvents /\ toast'._id > toast._id]_vars
    /\ [][ev'.name = "timer" => ev'.seq = toast._id]_vars

\* the timer of a second or later notification fired and dismissed it
OwnTimerWitness ==
    /\ ev.name = "timer"
    /\ ev.seq >= 2
    /\ ev.prev = ev.seq
    /\ toast = NoToast
    /\ timers = {}

\* C9: the loading flag is true whenever a GET /users/all call is in flight.
LoadingWhileFetching == gets # {} => loading

\* C10: a response never replaces the response of a fetch started later.
NewestResponseWins == [][cachedFrom' >= cachedFrom]_vars

=============================================================================
